---- MODULE Spec2Model ----
(***************************************************************************)
(* daisy/TaskLibrary/ToolRunner.py: the tool execution lifecycle           *)
(* (ToolRunner.__call__), the identity tool (run_tool_identity.run) and    *)
(* the external-command tools (TestRunner.run), over a filesystem of       *)
(* regular files and symbolic links.                                       *)
(*                                                                         *)
(* A path or any other Python str is a sequence of one-character strings,  *)
(* so that re.sub, os.path.basename, slicing and glob are computed on the  *)
(* characters.                                                             *)
(***************************************************************************)
EXTENDS Integers, Sequences, FiniteSets, TLC

----------------------------------------------------------------------------
(* Bounds of the model *)

\* how many calls of a runner one behaviour makes
MaxCalls == 3
\* longest list bound to one input key
MaxList == 2

----------------------------------------------------------------------------
(* Strings *)

HasPrefix(s, pre) == Len(pre) <= Len(s) /\ SubSeq(s, 1, Len(pre)) = pre

Drop(s, n) == SubSeq(s, n + 1, Len(s))

\* re.sub(pat, repl, s) for a pattern of literal characters: every
\* non-overlapping occurrence, leftmost first, is replaced.
RECURSIVE re_sub(_, _, _)
re_sub(pat, repl, s) ==
    IF s = <<>> THEN <<>>
    ELSE IF HasPrefix(s, pat) THEN repl \o re_sub(pat, repl, Drop(s, Len(pat)))
    ELSE <<Head(s)>> \o re_sub(pat, repl, Tail(s))

\* the marker the mount point is reverted to (line 29)
ArvMarker == <<"a", "r", "v", "=">>

\* os.getcwd() of the process
Cwd == <<"/", "w">>

\* os.path.abspath: a relative path is joined to the working directory
abspath(p) == IF p # <<>> /\ Head(p) = "/" THEN p ELSE Cwd \o <<"/">> \o p

\* index of the last "/" of p, 0 when there is none
RECURSIVE LastSlash(_, _)
LastSlash(p, i) == IF i = 0 THEN 0 ELSE IF p[i] = "/" THEN i ELSE LastSlash(p, i - 1)

\* os.path.basename
basename(p) == Drop(p, LastSlash(p, Len(p)))

\* os.path.dirname of an absolute path
dirname(p) ==
    LET i == LastSlash(p, Len(p)) IN IF i <= 1 THEN <<"/">> ELSE SubSeq(p, 1, i - 1)

\* fnmatch of one path against a glob pattern whose only magic is "*"
\* (any run of characters within one path component)
RECURSIVE GlobMatch(_, _)
GlobMatch(pat, s) ==
    IF pat = <<>> THEN s = <<>>
    ELSE IF Head(pat) = "*"
         THEN GlobMatch(Tail(pat), s)
              \/ (s # <<>> /\ Head(s) # "/" /\ GlobMatch(pat, Tail(s)))
         ELSE s # <<>> /\ Head(s) = Head(pat) /\ GlobMatch(Tail(pat), Tail(s))

----------------------------------------------------------------------------
(* The filesystem: a function from the paths that have an entry to entries *)

File(c, t) == [k |-> "file", c |-> c, t |-> t, to |-> <<>>]
Link(to) == [k |-> "link", c |-> <<>>, t |-> <<0, 0>>, to |-> to]
NoEntry == [k |-> "none", c |-> <<>>, t |-> <<0, 0>>, to |-> <<>>]

Data == <<"D">>

\* the source files on disk before the first call, each with (atime, mtime)
P_s == <<"/", "d", "/", "s">>
P_si == <<"/", "d", "/", "s", ".", "i">>
P_sb == <<"/", "d", "/", "s", ".", "b">>
P_r == <<"r">>
P_wr == <<"/", "w", "/", "r">>
P_t == <<"/", "m", "/", "t">>
P_ti == <<"/", "m", "/", "t", ".", "i">>
P_dm == <<"/", "d", "/", "m">>

InitFs ==
    (P_s :> File(Data, <<-1, -2>>)) @@ (P_si :> File(Data, <<-3, -4>>))
    @@ (P_sb :> File(Data, <<-5, -5>>)) @@ (P_wr :> File(Data, <<-6, -7>>))
    @@ (P_t :> File(Data, <<-8, -9>>)) @@ (P_ti :> File(Data, <<-10, -11>>))

Entry(f, p) == IF p \in DOMAIN f THEN f[p] ELSE NoEntry

\* os.path.lexists: the path has an entry, a dangling link included
lexists(f, p) == p \in DOMAIN f

\* the path an open() or stat() of p ends at: a link is followed (links of
\* this model point at source paths, which are never links)
Final(f, p) == IF lexists(f, p) /\ f[p].k = "link" THEN f[p].to ELSE p

\* os.path.exists: follows links, False for a dangling link
exists(f, p) == lexists(f, Final(f, p)) /\ f[Final(f, p)].k = "file"

\* the directories there are: the code makes none
Dirs == {dirname(q) : q \in DOMAIN InitFs} \cup {Cwd, <<"/">>}

\* dest can be opened for writing: it resolves to a file, or to a missing
\* path in a directory that is there (else open fails with ENOENT)
creatable(f, dest) == exists(f, dest) \/ dirname(Final(f, dest)) \in Dirs

Put(f, p, e) == [q \in DOMAIN f \cup {p} |-> IF q = p THEN e ELSE f[q]]

\* dest opened for writing (open(dest, "w") or the shell's "> dest") and left
\* with content c: a link is followed and a missing file created; the
\* modification time is now, the access time stays that of a file that was
\* there
written(f, dest, c, now) ==
    Put(f, Final(f, dest),
        File(c, <<IF exists(f, dest) THEN f[Final(f, dest)].t[1] ELSE now, now>>))

----------------------------------------------------------------------------
(* Collaborators imported by ToolRunner.py (lines 6-11) *)

\* the directory below which a file is mount-backed
MountDir == <<"/", "m", "/">>

\* daisy.Pipeline.Execution.file_is_mounted
file_is_mounted(p) == HasPrefix(p, MountDir)

\* daisy.Pipeline.Execution.get_mounted_location, when the lookup succeeds
get_mounted_location(p) == Drop(p, Len(MountDir))

\* Runner.expected of the concrete tools (lines 50, 102)
expected(tool) == IF tool = "identity" THEN {"file"} ELSE {"data"}

\* get_version of the concrete tools (lines 59-60, 105-106)
get_version(tool) == "builtin"

\* the path attribute of the TestRunner tools (lines 117, 121)
path(tool) ==
    <<"d", "a", "i", "s", "y", " ">>
    \o (IF tool = "modify" THEN <<"m", "o", "d", "i", "f", "y">>
        ELSE <<"r", "e", "v", "e", "r", "t">>)
    \o <<"-", "s", "t", "r", "i", "n", "g">>

\* params.options as Runner.build_params leaves it when the configuration
\* sets none: the empty string
options == <<>>

\* what the command run by P.run prints to its standard output
command_output(tool) == IF tool = "modify" THEN <<"M">> ELSE <<"R">>

----------------------------------------------------------------------------
(* Inputs *)

Leaf(p) == [t |-> "leaf", v |-> p]
List(ps) == [t |-> "list", v |-> ps]
None == [t |-> "none", v |-> <<>>]
Str(s) == [t |-> "str", v |-> s]

\* Python truth of an attribute that is None or a str
Truthy(x) == x.t = "str" /\ x.v # <<>>

Leaves == {P_s, P_r, P_t, P_dm}
ListLeaves == {P_s, P_t}
Lists == UNION {[1..n -> {Leaf(p) : p \in ListLeaves}] : n \in 0..MaxList}
Values == {Leaf(p) : p \in Leaves} \cup {List(l) : l \in Lists}

\* an InputSet: a dict of one key
InputSets ==
    {("file" :> v) : v \in Values} \cup {("data" :> Leaf(p)) : p \in {P_s, P_dm}}

O_o == <<"/", "o">>
O_oi == <<"/", "o", ".", "i">>
OutFiles == {O_o, O_oi}
Mp_m == <<"/", "m">>
Globs == {None, Str(<<".", "i">>), Str(<<"*">>)}

Config(tool, mountpoint, add_glob, in, outfile, arg, par) ==
    [tool |-> tool, mountpoint |-> mountpoint, add_glob |-> add_glob,
     infiles |-> in, outfile |-> outfile, arg_only_info |-> arg,
     params_only_info |-> par]

\* what one call is made with: the runner (its class attributes as
\* configured), the arguments of __call__, and whether P.PARAMS holds
\* "only_info"
Configs ==
    \* the identity tool on one path, with and without a glob suffix
    {Config("identity", None, g, ("file" :> Leaf(f)), O_o, FALSE, par) :
        g \in Globs, f \in Leaves, par \in BOOLEAN}
    \* ... on a list of paths
    \cup {Config("identity", None, g, ("file" :> List(l)), O_o, FALSE, FALSE) :
        g \in {None, Str(<<".", "i">>)}, l \in Lists}
    \* ... with the output where a sibling of O_o goes
    \cup {Config("identity", None, None, ("file" :> Leaf(f)), O_oi, FALSE, FALSE) :
        f \in Leaves}
    \* ... without its input
    \cup {Config("identity", None, None, ("data" :> Leaf(f)), O_o, FALSE, par) :
        f \in {P_s, P_dm}, par \in BOOLEAN}
    \* the only_info argument given
    \cup {Config("identity", None, None, ("file" :> Leaf(f)), O_o, TRUE, par) :
        f \in {P_s, P_t}, par \in BOOLEAN}
    \* a runner configured with a mountpoint pattern
    \cup {Config("identity", Str(Mp_m), None, ("file" :> Leaf(f)), O_o, FALSE, par) :
        f \in {P_t, P_dm}, par \in BOOLEAN}
    \* the external-command tools
    \cup {Config(t, None, None, (k :> Leaf(P_s)), O_o, FALSE, par) :
        t \in {"modify", "revert"}, k \in {"file", "data"}, par \in BOOLEAN}

Procs == {1, 2}

VARIABLES
    fs,       \* the filesystem
    meta,     \* ExecutionRecords written by save_meta, keyed by output path
    bench,    \* Benchmarks written by save_benchmark, keyed by output path
    clock,    \* calls begun so far; the time of a write
    pc,       \* per invocation: the line it is at
    cfg,      \* per invocation: its Config
    infiles,  \* per invocation: the infiles dict, which line 29 rewrites
    self,     \* per invocation: the value instantiate_input bound, or None
    err,      \* per invocation: the exception that left __call__, "" if none
    log,      \* per invocation: the lifecycle steps taken, in order
    writes,   \* per invocation: what it has written
    pre,      \* per invocation: fs, meta and bench as the call began
    second,   \* per invocation: the call repeats the previous one
    run       \* per invocation: the locals of run()

vars == <<fs, meta, bench, clock, pc, cfg, infiles, self, err, log, writes,
          pre, second, run>>

NoRun == [source_fn |-> <<>>, link_f |-> "", todo |-> {}, source |-> <<>>,
          dest |-> <<>>, o |-> <<0, 0>>, after |-> "", result |-> "None",
          statement |-> <<>>, exit |-> 0]

IdleConfig == Config("identity", None, None, ("file" :> Leaf(P_s)), O_o, FALSE, FALSE)

Init ==
    /\ fs = InitFs
    /\ meta = <<>>
    /\ bench = <<>>
    /\ clock = 0
    /\ pc = [p \in Procs |-> "idle"]
    /\ cfg = [p \in Procs |-> IdleConfig]
    /\ infiles = [p \in Procs |-> IdleConfig.infiles]
    /\ self = [p \in Procs |-> None]
    /\ err = [p \in Procs |-> ""]
    /\ log = [p \in Procs |-> <<>>]
    /\ writes = [p \in Procs |-> {}]
    /\ pre = [p \in Procs |-> [fs |-> InitFs, meta |-> <<>>, bench |-> <<>>]]
    /\ second = [p \in Procs |-> FALSE]
    /\ run = [p \in Procs |-> NoRun]

Ended(p) == pc[p] \in {"idle", "returned", "raised"}

\* an exception leaves __call__
Raise(p, e) == pc' = [pc EXCEPT ![p] = "raised"] /\ err' = [err EXCEPT ![p] = e]

----------------------------------------------------------------------------
(* ToolRunner.__call__ *)

\* a runner that saves the ExecutionRecord before it binds its inputs
next_line_meta_first(at) ==
    CASE at = "begin" -> "redirect"
      [] at = "redirect" -> "save_meta"
      [] at = "save_meta" -> "instantiate_input"
      [] at = "instantiate_input" -> "only_info"
      [] at = "only_info" -> "run"
      [] at = "run" -> "save_benchmark"
      [] at = "save_benchmark" -> "returned"

\* a runner that saves the Benchmark before it runs the tool
next_line_benchmark_first(at) ==
    CASE at = "begin" -> "redirect"
      [] at = "redirect" -> "instantiate_input"
      [] at = "instantiate_input" -> "save_meta"
      [] at = "save_meta" -> "only_info"
      [] at = "only_info" -> "save_benchmark"
      [] at = "save_benchmark" -> "run"
      [] at = "run" -> "returned"

\* the order of the statements of __call__ (lines 25-42): where control
\* goes from each when it does not raise or return
next_line(at) ==
    CASE at = "begin" -> "redirect"
      [] at = "redirect" -> "instantiate_input"
      [] at = "instantiate_input" -> "save_meta"
      [] at = "save_meta" -> "only_info"
      [] at = "only_info" -> "run"
      [] at = "run" -> "save_benchmark"
      [] at = "save_benchmark" -> "returned"

Begin(p, c, again) ==
    /\ clock' = clock + 1
    /\ pc' = [pc EXCEPT ![p] = next_line("begin")]
    /\ cfg' = [cfg EXCEPT ![p] = c]
    /\ infiles' = [infiles EXCEPT ![p] = c.infiles]
    /\ self' = [self EXCEPT ![p] = None]
    /\ err' = [err EXCEPT ![p] = ""]
    /\ log' = [log EXCEPT ![p] = <<>>]
    /\ writes' = [writes EXCEPT ![p] = {}]
    /\ pre' = [pre EXCEPT ![p] = [fs |-> fs, meta |-> meta, bench |-> bench]]
    /\ second' = [second EXCEPT ![p] = again]
    /\ run' = [run EXCEPT ![p] = NoRun]
    /\ UNCHANGED <<fs, meta, bench>>

\* the scheduler calls a runner
call(p) ==
    /\ Ended(p)
    /\ clock < MaxCalls
    /\ \E c \in Configs : Begin(p, c, FALSE)

\* the scheduler calls the same runner again with the same arguments, after
\* the call before returned
call_again(p) ==
    /\ pc[p] = "returned"
    /\ clock < MaxCalls
    /\ Begin(p, cfg[p], TRUE)

\* line 23: the only_info argument is replaced by the configuration's
only_info(c) == c.params_only_info

\* IOTools.nested_iter with the assignment of line 29, below one value of
\* the dict: every leaf, however deep in lists, is visited once and replaced
RECURSIVE nested_sub_value(_, _)
nested_sub_value(mp, v) ==
    IF v.t = "leaf"
    THEN Leaf(re_sub(mp, ArvMarker, v.v))
    ELSE List([i \in 1..Len(v.v) |-> nested_sub_value(mp, v.v[i])])

\* lines 28-29 over the whole dict
nested_sub(mp, d) == [key \in DOMAIN d |-> nested_sub_value(mp, d[key])]

\* lines 25-29
redirect(c, d) == IF Truthy(c.mountpoint) THEN nested_sub(c.mountpoint.v, d) ELSE d

call_redirect(p) ==
    /\ pc[p] = "redirect"
    /\ infiles' = [infiles EXCEPT ![p] = redirect(cfg[p], infiles[p])]
    /\ pc' = [pc EXCEPT ![p] = next_line("redirect")]
    /\ UNCHANGED <<fs, meta, bench, clock, cfg, self, err, log, writes, pre,
                   second, run>>

\* Runner.instantiate_input: the keys of expected that infiles lacks
missing_inputs(tool, d) == expected(tool) \ DOMAIN d

\* line 31
call_instantiate_input(p) ==
    /\ pc[p] = "instantiate_input"
    /\ IF missing_inputs(cfg[p].tool, infiles[p]) # {}
       THEN /\ Raise(p, "MissingInputError")
            /\ UNCHANGED <<self, log>>
       ELSE /\ self' = [self EXCEPT ![p] =
                           infiles[p][CHOOSE k \in expected(cfg[p].tool) : TRUE]]
            /\ log' = [log EXCEPT ![p] = Append(@, "instantiate_input")]
            /\ pc' = [pc EXCEPT ![p] = next_line("instantiate_input")]
            /\ err' = err
    /\ UNCHANGED <<fs, meta, bench, clock, cfg, infiles, writes, pre, second, run>>

\* Runner.save_meta: the ExecutionRecord of an output
ExecutionRecord(p) ==
    [name |-> cfg[p].tool, version |-> get_version(cfg[p].tool),
     inputs |-> infiles[p], output |-> cfg[p].outfile]

\* line 32
call_save_meta(p) ==
    /\ pc[p] = "save_meta"
    /\ meta' = Put(meta, cfg[p].outfile, ExecutionRecord(p))
    /\ writes' = [writes EXCEPT ![p] = @ \cup {<<"meta", cfg[p].outfile>>}]
    /\ log' = [log EXCEPT ![p] = Append(@, "save_meta")]
    /\ pc' = [pc EXCEPT ![p] = next_line("save_meta")]
    /\ UNCHANGED <<fs, bench, clock, cfg, infiles, self, err, pre, second, run>>

\* lines 34-39
call_only_info(p) ==
    /\ pc[p] = "only_info"
    /\ IF only_info(cfg[p])
       THEN /\ pc' = [pc EXCEPT ![p] = "returned"]
            /\ log' = [log EXCEPT ![p] = Append(@, "warn")]
       ELSE /\ pc' = [pc EXCEPT ![p] = next_line("only_info")]
            /\ log' = [log EXCEPT ![p] = Append(@, "build_params")]
    /\ UNCHANGED <<fs, meta, bench, clock, cfg, infiles, self, err, writes, pre,
                   second, run>>

\* lines 41-42: Runner.save_benchmark with what run returned
call_save_benchmark(p) ==
    /\ pc[p] = "save_benchmark"
    /\ bench' = Put(bench, cfg[p].outfile, run[p].result)
    /\ writes' = [writes EXCEPT ![p] = @ \cup {<<"bench", cfg[p].outfile>>}]
    /\ log' = [log EXCEPT ![p] = Append(@, "save_benchmark")]
    /\ pc' = [pc EXCEPT ![p] = next_line("save_benchmark")]
    /\ UNCHANGED <<fs, meta, clock, cfg, infiles, self, err, pre, second, run>>

----------------------------------------------------------------------------
(* run_tool_identity.run *)

\* a run that takes the first file of any list
single_file_first(f) ==
    IF f.t = "none" THEN [ok |-> FALSE, fn |-> <<>>, e |-> "ValueError"]
    ELSE IF f.t = "list"
         THEN IF Len(f.v) >= 1 /\ f.v[1].t = "leaf"
              THEN [ok |-> TRUE, fn |-> f.v[1].v, e |-> ""]
              ELSE [ok |-> FALSE, fn |-> <<>>, e |-> "NotImplementedError"]
         ELSE [ok |-> TRUE, fn |-> f.v, e |-> ""]

\* lines 64-75: the one file to link, or the exception
single_file(f) ==
    IF f.t = "none" THEN [ok |-> FALSE, fn |-> <<>>, e |-> "ValueError"]
    ELSE IF f.t = "list"
         THEN IF Len(f.v) = 1
              THEN \* line 71; os.path.abspath of a list is a TypeError
                   IF f.v[1].t = "leaf"
                   THEN [ok |-> TRUE, fn |-> f.v[1].v, e |-> ""]
                   ELSE [ok |-> FALSE, fn |-> <<>>, e |-> "TypeError"]
              ELSE [ok |-> FALSE, fn |-> <<>>, e |-> "NotImplementedError"]
         ELSE [ok |-> TRUE, fn |-> f.v, e |-> ""]

\* a run that never asks whether the source is mount-backed
link_f_symlink(source_fn) == "symlink"

\* lines 85-88
link_f(source_fn) ==
    IF file_is_mounted(source_fn) THEN "touch_and_mark_as_mounted" ELSE "symlink"

\* where a call of link_f(source, dest) starts
LinkEntry(f) == IF f = "symlink" THEN "symlink" ELSE "stat"

\* lines 64-88
run_identity(p) ==
    /\ pc[p] = "run"
    /\ cfg[p].tool = "identity"
    /\ log' = [log EXCEPT ![p] = Append(@, "run")]
    /\ LET r == single_file(self[p]) IN
       IF r.ok
       THEN /\ run' = [run EXCEPT ![p] =
                          [NoRun EXCEPT !.source_fn = abspath(r.fn),
                                        !.link_f = link_f(abspath(r.fn))]]
            /\ pc' = [pc EXCEPT ![p] = "outfile"]
            /\ err' = err
       ELSE /\ Raise(p, r.e)
            /\ run' = run
    /\ UNCHANGED <<fs, meta, bench, clock, cfg, infiles, self, writes, pre, second>>

\* lines 90 and 97: the output is linked unless it exists
must_link(f, dest) == ~exists(f, dest)

\* lines 90-91: link_f(source_fn, outfile) unless outfile exists
run_outfile(p) ==
    /\ pc[p] = "outfile"
    /\ IF must_link(fs, cfg[p].outfile)
       THEN /\ run' = [run EXCEPT ![p].source = run[p].source_fn,
                                  ![p].dest = cfg[p].outfile,
                                  ![p].after = "glob"]
            /\ pc' = [pc EXCEPT ![p] = LinkEntry(run[p].link_f)]
       ELSE /\ pc' = [pc EXCEPT ![p] = "glob"]
            /\ run' = run
    /\ UNCHANGED <<fs, meta, bench, clock, cfg, infiles, self, err, log, writes,
                   pre, second>>

\* os.symlink(source, dest): fails when dest has an entry
symlink(p) ==
    /\ pc[p] = "symlink"
    /\ IF lexists(fs, run[p].dest)
       THEN /\ Raise(p, "FileExistsError")
            /\ UNCHANGED <<fs, writes>>
       ELSE /\ fs' = Put(fs, run[p].dest, Link(run[p].source))
            /\ writes' = [writes EXCEPT ![p] = @ \cup {<<"fs", run[p].dest>>}]
            /\ pc' = [pc EXCEPT ![p] = run[p].after]
            /\ err' = err
    /\ UNCHANGED <<meta, bench, clock, cfg, infiles, self, log, pre, second, run>>

\* line 80: o = os.stat(source)
touch_stat(p) ==
    /\ pc[p] = "stat"
    /\ IF exists(fs, run[p].source)
       THEN /\ run' = [run EXCEPT ![p].o = fs[Final(fs, run[p].source)].t]
            /\ pc' = [pc EXCEPT ![p] = "touch"]
            /\ err' = err
       ELSE /\ Raise(p, "FileNotFoundError")
            /\ run' = run
    /\ UNCHANGED <<fs, meta, bench, clock, cfg, infiles, self, log, writes, pre,
                   second>>

\* IOTools.touch_file(dest, times): the file is opened for appending, which
\* creates it empty when it is missing, and its times are set
touched(f, dest, times) ==
    Put(f, Final(f, dest),
        File(IF exists(f, dest) THEN f[Final(f, dest)].c ELSE <<>>, times))

\* line 81: through a link into a directory that is missing the file cannot
\* be created and the open fails
touch_file(p) ==
    /\ pc[p] = "touch"
    /\ IF creatable(fs, run[p].dest)
       THEN /\ fs' = touched(fs, run[p].dest, run[p].o)
            /\ writes' = [writes EXCEPT ![p] = @ \cup {<<"fs", run[p].dest>>}]
            /\ pc' = [pc EXCEPT ![p] = "open_mnt"]
            /\ err' = err
       ELSE /\ Raise(p, "FileNotFoundError")
            /\ UNCHANGED <<fs, writes>>
    /\ UNCHANGED <<meta, bench, clock, cfg, infiles, self, log, pre, second, run>>

MntSuffix == <<".", "m", "n", "t">>

\* the sidecar of an output
mnt(dest) == dest \o MntSuffix

\* line 82: open(dest + ".mnt", "w") creates or truncates the sidecar
mnt_open(p) ==
    /\ pc[p] = "open_mnt"
    /\ IF creatable(fs, mnt(run[p].dest))
       THEN /\ fs' = written(fs, mnt(run[p].dest), <<>>, clock)
            /\ writes' = [writes EXCEPT ![p] = @ \cup {<<"fs", mnt(run[p].dest)>>}]
            /\ pc' = [pc EXCEPT ![p] = "write_mnt"]
            /\ err' = err
       ELSE /\ Raise(p, "FileNotFoundError")
            /\ UNCHANGED <<fs, writes>>
    /\ UNCHANGED <<meta, bench, clock, cfg, infiles, self, log, pre, second, run>>

\* line 83: the mounted location is looked up and written; when the lookup
\* (or the write) fails the with-block closes the sidecar as it is
mnt_write(p) ==
    /\ pc[p] = "write_mnt"
    /\ \E ok \in BOOLEAN :
        IF ok
        THEN /\ fs' = written(fs, mnt(run[p].dest),
                              get_mounted_location(run[p].source), clock)
             /\ pc' = [pc EXCEPT ![p] = run[p].after]
             /\ err' = err
        ELSE /\ Raise(p, "ResolutionError")
             /\ fs' = fs
    /\ UNCHANGED <<meta, bench, clock, cfg, infiles, self, log, writes, pre,
                   second, run>>

\* glob.glob(pattern): the paths with an entry that match
glob(f, pattern) == {q \in DOMAIN f : GlobMatch(pattern, q)}

\* a run that measures the whole source path, not its basename
prefix_of_path(source_fn) == Len(source_fn)

\* line 94
prefix(source_fn) == Len(basename(source_fn))

\* line 96
target(outfile, source_fn, fn) == outfile \o Drop(basename(fn), prefix(source_fn))

\* lines 93-95
run_glob(p) ==
    /\ pc[p] = "glob"
    /\ run' = [run EXCEPT ![p].todo =
                  IF Truthy(cfg[p].add_glob)
                  THEN glob(fs, run[p].source_fn \o cfg[p].add_glob.v)
                  ELSE {}]
    /\ pc' = [pc EXCEPT ![p] = "loop"]
    /\ UNCHANGED <<fs, meta, bench, clock, cfg, infiles, self, err, log, writes,
                   pre, second>>

\* lines 95-98: one iteration of the loop, or its end, where run returns None
run_loop(p) ==
    /\ pc[p] = "loop"
    /\ IF run[p].todo = {}
       THEN /\ pc' = [pc EXCEPT ![p] = next_line("run")]
            /\ run' = [run EXCEPT ![p].result = "None"]
       ELSE \E fn \in run[p].todo :
            LET t == target(cfg[p].outfile, run[p].source_fn, fn) IN
            IF must_link(fs, t)
            THEN /\ run' = [run EXCEPT ![p].todo = @ \ {fn},
                                       ![p].source = abspath(fn),
                                       ![p].dest = t,
                                       ![p].after = "loop"]
                 /\ pc' = [pc EXCEPT ![p] = LinkEntry(run[p].link_f)]
            ELSE /\ run' = [run EXCEPT ![p].todo = @ \ {fn}]
                 /\ pc' = pc
    /\ UNCHANGED <<fs, meta, bench, clock, cfg, infiles, self, err, log, writes,
                   pre, second>>

----------------------------------------------------------------------------
(* TestRunner.run *)

\* lines 109-112: the string given to P.run
statement(tool, data, outfile) ==
    path(tool) \o <<" ">> \o options \o <<" ">> \o data \o <<" ", ">", " ">> \o outfile

\* lines 108-112: P.run starts a shell on "<path> <options> <data> >
\* <outfile>". The shell opens outfile for writing, which creates or
\* truncates it, before the command runs; when outfile cannot be created
\* nothing is written and P.run fails, with the shell's exit status
\* (ExecutionError) or, where it opens outfile itself, with the error of the
\* open
run_test(p) ==
    /\ pc[p] = "run"
    /\ cfg[p].tool \in {"modify", "revert"}
    /\ log' = [log EXCEPT ![p] = Append(@, "run")]
    /\ run' = [run EXCEPT ![p].statement =
                   statement(cfg[p].tool, self[p].v, cfg[p].outfile)]
    /\ IF creatable(fs, cfg[p].outfile)
       THEN /\ fs' = written(fs, cfg[p].outfile, <<>>, clock)
            /\ writes' = [writes EXCEPT ![p] = @ \cup {<<"fs", cfg[p].outfile>>}]
            /\ pc' = [pc EXCEPT ![p] = "command"]
            /\ err' = err
       ELSE /\ \E e \in {"FileNotFoundError", "ExecutionError"} : Raise(p, e)
            /\ UNCHANGED <<fs, writes>>
    /\ UNCHANGED <<meta, bench, clock, cfg, infiles, self, pre, second>>

\* the subprocess: the command prints its output into outfile and exits
\* with 0, or fails, leaves outfile as the shell opened it and exits with
\* another status
run_command(p) ==
    /\ pc[p] = "command"
    /\ \E ok \in BOOLEAN :
        /\ fs' = IF ok
                 THEN written(fs, cfg[p].outfile, command_output(cfg[p].tool), clock)
                 ELSE fs
        /\ run' = [run EXCEPT ![p].exit = IF ok THEN 0 ELSE 1]
    /\ pc' = [pc EXCEPT ![p] = "wait"]
    /\ UNCHANGED <<meta, bench, clock, cfg, infiles, self, err, log, writes, pre,
                   second>>

\* P.run has waited for the subprocess: exit status 0 gives the benchmark
\* data that run returns (line 109), another status raises
run_wait(p) ==
    /\ pc[p] = "wait"
    /\ IF run[p].exit = 0
       THEN /\ run' = [run EXCEPT ![p].result = "benchmark"]
            /\ pc' = [pc EXCEPT ![p] = next_line("run")]
            /\ err' = err
       ELSE /\ run' = run
            /\ Raise(p, "ExecutionError")
    /\ UNCHANGED <<fs, meta, bench, clock, cfg, infiles, self, log, writes, pre,
                   second>>

----------------------------------------------------------------------------
(* One runner called again and again *)

Step(p) ==
    \/ call(p)
    \/ call_again(p)
    \/ call_redirect(p)
    \/ call_instantiate_input(p)
    \/ call_save_meta(p)
    \/ call_only_info(p)
    \/ run_identity(p)
    \/ run_outfile(p)
    \/ symlink(p)
    \/ touch_stat(p)
    \/ touch_file(p)
    \/ mnt_open(p)
    \/ mnt_write(p)
    \/ run_glob(p)
    \/ run_loop(p)
    \/ run_test(p)
    \/ run_command(p)
    \/ run_wait(p)
    \/ call_save_benchmark(p)

Next == Step(1)

Spec == Init /\ [][Next]_vars

----------------------------------------------------------------------------
(* Mount redirection and binding alone, over nested InputSets *)

P_mm == <<"/", "m", "/", "m">>

NestedInputSets ==
    InputSets
    \cup {("file" :> v) : v \in
            {Leaf(P_mm),
             List(<<List(<<Leaf(P_t)>>)>>),
             List(<<Leaf(P_dm), List(<<Leaf(P_t), Leaf(P_s)>>)>>)}}

RedirectConfigs ==
    {Config("identity", mp, None, in, O_o, FALSE, FALSE) :
        mp \in {None, Str(<<>>), Str(Mp_m)}, in \in NestedInputSets}

\* one call has begun
Begun(c) ==
    /\ fs = InitFs
    /\ meta = <<>>
    /\ bench = <<>>
    /\ clock = 1
    /\ cfg = [p \in Procs |-> c]
    /\ infiles = [p \in Procs |-> c.infiles]
    /\ self = [p \in Procs |-> None]
    /\ err = [p \in Procs |-> ""]
    /\ log = [p \in Procs |-> <<>>]
    /\ writes = [p \in Procs |-> {}]
    /\ pre = [p \in Procs |-> [fs |-> InitFs, meta |-> <<>>, bench |-> <<>>]]
    /\ second = [p \in Procs |-> FALSE]
    /\ run = [p \in Procs |-> NoRun]

RedirectInit ==
    /\ \E c \in RedirectConfigs : Begun(c)
    /\ pc = [p \in Procs |-> IF p = 1 THEN next_line("begin") ELSE "idle"]

RedirectNext == call_redirect(1) \/ call_instantiate_input(1)

RedirectSpec == RedirectInit /\ [][RedirectNext]_vars

----------------------------------------------------------------------------
(* Two invocations of the identity tool on one source and one outfile, their
   filesystem steps interleaved *)

RaceConfigs ==
    {Config("identity", None, g, ("file" :> Leaf(f)), O_o, FALSE, FALSE) :
        g \in Globs, f \in {P_s, P_t}}

RaceInit ==
    /\ \E c \in RaceConfigs : Begun(c)
    /\ pc = [p \in Procs |-> next_line("begin")]

RaceStep(p) ==
    \/ call_redirect(p)
    \/ call_instantiate_input(p)
    \/ call_save_meta(p)
    \/ call_only_info(p)
    \/ run_identity(p)
    \/ run_outfile(p)
    \/ symlink(p)
    \/ touch_stat(p)
    \/ touch_file(p)
    \/ mnt_open(p)
    \/ mnt_write(p)
    \/ run_glob(p)
    \/ run_loop(p)
    \/ call_save_benchmark(p)

RaceNext == \E p \in Procs : RaceStep(p)

RaceSpec == RaceInit /\ [][RaceNext]_vars

----------------------------------------------------------------------------
(* Properties *)

Range(q) == {q[i] : i \in 1..Len(q)}

InCall(p) == pc[p] # "idle"

\* instantiate_input accepts the InputSet the call was made with
Binds(p) == missing_inputs(cfg[p].tool, cfg[p].infiles) = {}

OutEntry(p) == Entry(fs, cfg[p].outfile)
PreOutEntry(p) == Entry(pre[p].fs, cfg[p].outfile)

\* C1 as stated: a call made with the argument dryRun (only_info) true writes
\* the ExecutionRecord and returns without running the tool: it creates
\* neither the output nor a Benchmark.
C1_DryRunArgument ==
    \A p \in Procs :
        (InCall(p) /\ cfg[p].arg_only_info /\ Binds(p)) =>
            /\ fs = pre[p].fs
            /\ bench = pre[p].bench
            /\ "run" \notin Range(log[p])
            /\ pc[p] # "raised"
            /\ pc[p] = "returned" =>
                  meta = Put(pre[p].meta, cfg[p].outfile, ExecutionRecord(p))

\* C2: the identity tool (expected = {"file"}) called with an InputSet that
\* lacks "file" fails with MissingInputError having written nothing: the
\* filesystem, the ExecutionRecords and the Benchmarks are as before the
\* call, in dry-run and in normal mode.
C2_MissingInputRejection ==
    \A p \in Procs :
        (InCall(p) /\ cfg[p].tool = "identity" /\ "file" \notin DOMAIN cfg[p].infiles) =>
            /\ fs = pre[p].fs /\ meta = pre[p].meta /\ bench = pre[p].bench
            /\ writes[p] = {}
            /\ pc[p] \in {"redirect", "instantiate_input", "raised"}
            /\ pc[p] = "raised" => err[p] = "MissingInputError"

\* the identity tool has raised MissingInputError in normal mode
C2_Witness ==
    \E p \in Procs :
        /\ pc[p] = "raised"
        /\ err[p] = "MissingInputError"
        /\ cfg[p].tool = "identity"
        /\ "file" \notin DOMAIN cfg[p].infiles
        /\ ~cfg[p].params_only_info

\* the file a path resolves to, as stat sees it
Resolved(f, p) == Entry(f, Final(f, p))

Identity(p) == InCall(p) /\ cfg[p].tool = "identity"

\* C3: a call repeated with identical inputs while outfile exists (the path
\* has an entry, be it a file or a symbolic link) leaves outfile as it was
\* (entry, link target or content, timestamps) and does not raise, whatever
\* the tool.
C3_Idempotence ==
    \A p \in Procs :
        (second[p] /\ lexists(pre[p].fs, cfg[p].outfile)) =>
            /\ OutEntry(p) = PreOutEntry(p)
            /\ Resolved(fs, cfg[p].outfile) = Resolved(pre[p].fs, cfg[p].outfile)
            /\ pc[p] # "raised"

\* the identity tool, called a second time over the symbolic link its first
\* call made, has raised FileExistsError at os.symlink
C3_RerunRaises ==
    \E p \in Procs :
        /\ second[p]
        /\ cfg[p].tool = "identity"
        /\ PreOutEntry(p) = Link(abspath(single_file(cfg[p].infiles["file"]).fn))
        /\ pc[p] = "raised"
        /\ err[p] = "FileExistsError"
        /\ fs = pre[p].fs

\* the link step of outfile is over and run goes on
PastOutfile(p) ==
    \/ pc[p] \in {"glob", "loop", "save_benchmark", "returned"}
    \/ pc[p] \in {"symlink", "stat", "touch", "open_mnt", "write_mnt"}
       /\ run[p].after = "loop"

HasSuffix(s, suf) == Len(suf) <= Len(s) /\ Drop(s, Len(s) - Len(suf)) = suf

\* C4: in a run of the identity tool that found no outfile, past the link of
\* outfile: for a mount-backed source outfile is an empty file with the
\* source's (atime, mtime) and outfile.mnt holds the source's mounted
\* location; otherwise outfile is a symbolic link to the absolute source
\* path and outfile.mnt is not written. No run writes a path ending in .mnt
\* unless its source is mount-backed.
C4_StrategySelection ==
    \A p \in Procs :
        /\ (Identity(p) /\ "run" \in Range(log[p]) /\ PastOutfile(p)
            /\ ~exists(pre[p].fs, cfg[p].outfile)) =>
              LET o == cfg[p].outfile
                  src == abspath(single_file(infiles[p]["file"]).fn)
              IN  IF file_is_mounted(src)
                  THEN /\ Resolved(fs, o) = File(<<>>, pre[p].fs[src].t)
                       /\ Entry(fs, mnt(o)).k = "file"
                       /\ Entry(fs, mnt(o)).c = get_mounted_location(src)
                  ELSE /\ Entry(fs, o) = Link(src)
                       /\ <<"fs", mnt(o)>> \notin writes[p]
                       /\ Entry(fs, mnt(o)) = Entry(pre[p].fs, mnt(o))
        /\ \A w \in writes[p] :
              (w[1] = "fs" /\ HasSuffix(w[2], MntSuffix)) =>
                  /\ cfg[p].tool = "identity"
                  /\ file_is_mounted(abspath(single_file(infiles[p]["file"]).fn))

\* a mount-backed source has been touched and marked at a new outfile
C4_Witness ==
    \E p \in Procs :
        /\ pc[p] = "returned"
        /\ cfg[p].tool = "identity"
        /\ run[p].link_f = "touch_and_mark_as_mounted"
        /\ PreOutEntry(p).k = "none"
        /\ OutEntry(p).k = "file"
        /\ <<"fs", mnt(cfg[p].outfile)>> \in writes[p]

\* the part of a match's basename after the source's basename
Suffixes(x) == {Drop(x, n) : n \in 0..Len(x)}
After(source_fn, q) ==
    CHOOSE r \in Suffixes(basename(q)) : basename(q) = basename(source_fn) \o r

\* the entries a glob suffix matched as the call began
Matches(p, source_fn) ==
    IF Truthy(cfg[p].add_glob)
    THEN {q \in DOMAIN pre[p].fs : GlobMatch(source_fn \o cfg[p].add_glob.v, q)}
    ELSE {}

\* C5: when a run of the identity tool with a glob suffix has returned, every
\* entry q that matched source + suffix has its sibling output, outfile
\* followed by the part of q's basename after the source's basename. The run
\* wrote a sibling only if it did not exist, whether or not outfile or the
\* other siblings existed, and then as a link to q (source not mount-backed)
\* or as an empty file with q's times and a .mnt sidecar of q's mounted
\* location (source mount-backed); a sibling it did not write is as it was.
\* The run writes no path but outfile, the siblings and their sidecars: with
\* no match, nothing besides outfile's own.
C5_GlobSiblings ==
    \A p \in Procs :
        (Identity(p) /\ "run" \in Range(log[p])
         /\ pc[p] \in {"save_benchmark", "returned"}) =>
            LET o == cfg[p].outfile
                src == abspath(single_file(infiles[p]["file"]).fn)
                sib(q) == o \o After(src, q)
            IN  /\ \A q \in Matches(p, src) :
                      /\ basename(q) = basename(src) \o After(src, q)
                      /\ exists(fs, sib(q))
                      /\ IF <<"fs", sib(q)>> \notin writes[p]
                         THEN Entry(fs, sib(q)) = Entry(pre[p].fs, sib(q))
                         ELSE /\ ~exists(pre[p].fs, sib(q))
                              /\ sib(q) # o =>
                                   IF file_is_mounted(src)
                                   THEN /\ Resolved(fs, sib(q)) = File(<<>>, pre[p].fs[q].t)
                                        /\ Entry(fs, mnt(sib(q))).c = get_mounted_location(q)
                                   ELSE Entry(fs, sib(q)) = Link(q)
                /\ \A w \in writes[p] :
                      w[1] = "fs" =>
                          \/ w[2] \in {o, mnt(o)}
                          \/ \E q \in Matches(p, src) : w[2] \in {sib(q), mnt(sib(q))}

\* a sibling has been linked by a run that found outfile there already
C5_Witness ==
    \E p \in Procs :
        /\ pc[p] = "returned"
        /\ cfg[p].tool = "identity"
        /\ Truthy(cfg[p].add_glob)
        /\ exists(pre[p].fs, cfg[p].outfile)
        /\ <<"fs", cfg[p].outfile>> \notin writes[p]
        /\ \E q \in DOMAIN InitFs :
              /\ q # run[p].source_fn
              /\ <<"fs", target(cfg[p].outfile, run[p].source_fn, q)>> \in writes[p]

\* C6: the identity tool bound to a list of more than one file raises the
\* multiple-files error (NotImplementedError) with the filesystem and the
\* Benchmarks as they were before the call; bound to a list of one file it
\* runs on that file as it would on the bare path.
C6_SingleSource ==
    \A p \in Procs :
        (Identity(p) /\ "run" \in Range(log[p])) =>
            LET f == infiles[p]["file"] IN
            /\ (f.t = "list" /\ Len(f.v) > 1) =>
                  /\ pc[p] = "raised"
                  /\ err[p] = "NotImplementedError"
                  /\ fs = pre[p].fs
                  /\ bench = pre[p].bench
            /\ (f.t = "list" /\ Len(f.v) = 1 /\ pc[p] # "raised") =>
                  /\ run[p].source_fn = abspath(f.v[1].v)
                  /\ run[p].link_f = link_f(abspath(f.v[1].v))
            /\ (f.t = "leaf" /\ pc[p] # "raised") =>
                  /\ run[p].source_fn = abspath(f.v)
                  /\ run[p].link_f = link_f(abspath(f.v))

\* the identity tool has refused a list of two files
C6_Witness ==
    \E p \in Procs :
        /\ pc[p] = "raised"
        /\ err[p] = "NotImplementedError"
        /\ cfg[p].tool = "identity"
        /\ infiles[p]["file"].t = "list"
        /\ Len(infiles[p]["file"].v) = 2

IsPrefixOf(a, b) == Len(a) <= Len(b) /\ SubSeq(b, 1, Len(a)) = a

\* C8: the steps of a call come in the order bind, ExecutionRecord, run,
\* Benchmark (or bind, ExecutionRecord, warning in a dry run). The Benchmark
\* of outfile is written only after run has returned, with what it returned,
\* and only by a call that is not a dry run; when run raises, the call
\* raises and the Benchmarks are as they were before the call.
C8_LifecycleOrder ==
    \A p \in Procs :
        InCall(p) =>
            /\ \/ IsPrefixOf(log[p], <<"instantiate_input", "save_meta",
                                       "build_params", "run", "save_benchmark">>)
               \/ IsPrefixOf(log[p], <<"instantiate_input", "save_meta", "warn">>)
            /\ "run" \in Range(log[p]) =>
                  /\ <<"meta", cfg[p].outfile>> \in writes[p]
                  /\ ~only_info(cfg[p])
            /\ bench # pre[p].bench =>
                  /\ pc[p] = "returned"
                  /\ "run" \in Range(log[p])
                  /\ bench = Put(pre[p].bench, cfg[p].outfile, run[p].result)
            /\ pc[p] = "raised" => /\ bench = pre[p].bench
                                   /\ err[p] # ""
            /\ (pc[p] = "returned" /\ ~only_info(cfg[p])) =>
                  /\ "save_benchmark" \in Range(log[p])
                  /\ bench = Put(pre[p].bench, cfg[p].outfile, run[p].result)

\* an external command has run and its Benchmark is saved
C8_Witness ==
    \E p \in Procs :
        /\ pc[p] = "returned"
        /\ cfg[p].tool = "modify"
        /\ log[p] = <<"instantiate_input", "save_meta", "build_params", "run",
                      "save_benchmark">>
        /\ cfg[p].outfile \in DOMAIN bench
        /\ bench[cfg[p].outfile] = "benchmark"

PastRedirect(p) == pc[p] \in {"instantiate_input", "save_meta", "raised"}

\* C7 as stated, leaf by leaf: a leaf that starts with the pattern has become
\* the marker "arv=" and the rest of the leaf, any other leaf is as it was
RECURSIVE MarkedAsStated(_, _, _)
MarkedAsStated(pat, v, w) ==
    IF v.t = "leaf"
    THEN /\ w.t = "leaf"
         /\ w.v = IF HasPrefix(v.v, pat) THEN ArvMarker \o Drop(v.v, Len(pat)) ELSE v.v
    ELSE /\ w.t = "list"
         /\ Len(w.v) = Len(v.v)
         /\ \A i \in 1..Len(v.v) : MarkedAsStated(pat, v.v[i], w.v[i])

\* C7 as stated: with a mountpoint pattern declared, every leaf of the
\* InputSet that matches it is in the "arv="-prefixed form before the inputs
\* are bound and every other leaf is unchanged; with none declared the
\* InputSet is unchanged. (An empty pattern is left open here.)
C7_RedirectPrefix ==
    \A p \in Procs :
        PastRedirect(p) =>
            /\ DOMAIN infiles[p] = DOMAIN cfg[p].infiles
            /\ IF Truthy(cfg[p].mountpoint)
               THEN \A key \in DOMAIN infiles[p] :
                       MarkedAsStated(cfg[p].mountpoint.v, cfg[p].infiles[key],
                                      infiles[p][key])
               ELSE cfg[p].mountpoint = None => infiles[p] = cfg[p].infiles

\* C9: when two invocations of the identity tool on one source and one
\* outfile have both ended, outfile is a symbolic link to the source, or an
\* empty placeholder with the source's times whose .mnt sidecar holds the
\* mounted location.
C9_RaceLeavesOutputWhole ==
    (\A p \in Procs : pc[p] \in {"returned", "raised"}) =>
        LET o == cfg[1].outfile
            src == abspath(cfg[1].infiles["file"].v)
        IN  \/ Entry(fs, o) = Link(src)
            \/ /\ Entry(fs, o) = File(<<>>, InitFs[src].t)
               /\ Entry(fs, mnt(o)).k = "file"
               /\ Entry(fs, mnt(o)).c = get_mounted_location(src)

\* C10: whenever a run of the identity tool on a mount-backed source has
\* ended, normally or with an error, and outfile is a placeholder (an empty
\* file with the source's times), outfile.mnt exists and holds the mounted
\* location of the source.
C10_PlaceholderHasSidecar ==
    \A p \in Procs :
        (pc[p] \in {"returned", "raised"} /\ cfg[p].tool = "identity"
         /\ run[p].link_f = "touch_and_mark_as_mounted"
         /\ Entry(fs, cfg[p].outfile) = File(<<>>, Resolved(fs, run[p].source_fn).t)) =>
            /\ Entry(fs, mnt(cfg[p].outfile)).k = "file"
            /\ Entry(fs, mnt(cfg[p].outfile)).c = get_mounted_location(run[p].source_fn)

====
